---- MODULE Spec2Model ----
(***************************************************************************)
(* Model of the mParticle merge scripts:                                   *)
(*   chunkify.py                                  split_csv                *)
(*   step1_email_mobile_identifier_child_profiles.py                       *)
(*        retryable_post, build_modify_payload, process_file, main        *)
(*   step2_email_identifier_winner_profile.py     chunkify, send_batch,    *)
(*        main                                                             *)
(* The three scripts are independent programs; prog says which one runs.   *)
(* Strings are sequences of one-character strings, so that strip, str and  *)
(* startswith are computed the way Python computes them.  None is the      *)
(* one-element sequence <<"None">>, which no string of characters equals.  *)
(***************************************************************************)
EXTENDS Integers, Sequences, FiniteSets, TLC

VARIABLES
  prog,           \* which script runs: "step1", "step2" or "chunkify"
  posts,          \* total HTTP POSTs issued by the run
  \* ---- step1 ----
  dry_run,        \* DRY_RUN, handed to process_file
  files,          \* number of chunk files glob found
  fi,             \* index of the file being processed
  pc1,            \* position of main/process_file
  rows,           \* rows the DictReader has yielded so far in this file
  results,        \* process_file's results list
  cur,            \* locals of the row in progress
  payload,        \* the json_payload dict shared by the nested calls
  stack,          \* activation records of retryable_post, innermost last
  exc,            \* the exception that ended the script, None if none
  summary_files,  \* number of per-file summaries written
  callPosts,      \* POSTs issued since the current top-level call began
  postlog,        \* per result record: POSTs issued for that row
  \* ---- step2 ----
  DRY_RUN,        \* step2's DRY_RUN setting
  bfiles,         \* number of chunk files glob found
  bfi,            \* index of the file being processed
  pc2,            \* position of step2's main/send_batch
  all_data,       \* rows of the file being processed
  bpos,           \* offset of chunkify's next slice
  batch,          \* the batch send_batch is sending
  attempt2,       \* send_batch's loop variable
  log_file,       \* contents of LOG_FILE
  slept2,         \* backoff sleeps of the current send_batch call
  batchlog,       \* per batch sent: its rows, what was logged, POSTs issued
  \* ---- chunkify ----
  header,         \* the input file's header row
  input,          \* the input file's data rows
  chunk_size,
  pcc,            \* position of split_csv
  rpos,           \* data rows the reader has yielded
  file_count,
  row_count,
  outfiles,       \* the output files written, in order of creation
  closed          \* number of output files closed

vars1 == <<dry_run, files, fi, pc1, rows, results, cur, payload, stack, exc,
           summary_files, callPosts, postlog>>
vars2 == <<DRY_RUN, bfiles, bfi, pc2, all_data, bpos, batch, attempt2,
           log_file, slept2, batchlog>>
varsc == <<header, input, chunk_size, pcc, rpos, file_count, row_count,
           outfiles, closed>>
vars == <<prog, posts, vars1, vars2, varsc>>

-----------------------------------------------------------------------------
(* Bounds of the model.  Spec explores both drivers and the chunker up to  *)
(* MaxFiles, MaxRows and MaxPosts; SpecRetry explores step1 alone over few  *)
(* rows, SpecDrivers both drivers over few POSTs, SpecBulk step2 alone.     *)
MaxFiles == 2      \* chunk files per run
MaxRows == 2       \* data rows per chunk file (step1)
MaxPosts == 4      \* HTTP POSTs explored per run
RetryFiles == 1    \* SpecRetry: chunk files per run
RetryRows == 1     \* SpecRetry: data rows per chunk file
RetryPosts == 3    \* SpecRetry: HTTP POSTs explored per run
DriverPosts == 2   \* SpecDrivers: HTTP POSTs explored per run
BulkFiles == 1     \* SpecBulk: chunk files per run
BulkPosts == 3     \* SpecBulk: HTTP POSTs explored per run

(* Program constants *)
MAX_RETRIES == 3
INITIAL_BACKOFF == 1

-----------------------------------------------------------------------------
(* Strings *)
None == <<"None">>
S_skipped == <<"s","k","i","p","p","e","d">>
S_failed == <<"f","a","i","l","e","d">>
S_dryrun == <<"d","r","y","-","r","u","n">>
S_skipped_modify_failed ==
  <<"s","k","i","p","p","e","d","_","m","o","d","i","f","y","_",
    "f","a","i","l","e","d">>
S_missing == <<"S","K","I","P","P","E","D",":"," ","M","i","s","s","i","n","g",
               " ","M","P","I","D">>
Whitespace == {" ", "\t"}

RECURSIVE LStrip(_, _)
LStrip(s, cs) ==
  IF s = <<>> THEN s
  ELSE IF Head(s) \in cs THEN LStrip(Tail(s), cs) ELSE s

RECURSIVE RStrip(_, _)
RStrip(s, cs) ==
  IF s = <<>> THEN s
  ELSE IF s[Len(s)] \in cs THEN RStrip(SubSeq(s, 1, Len(s) - 1), cs) ELSE s

\* str.strip(chars)
Strip(s, cs) == RStrip(LStrip(s, cs), cs)

Digit == <<"0","1","2","3","4","5","6","7","8","9">>

RECURSIVE StrInt(_)
\* str(n) for n >= 0
StrInt(n) ==
  IF n < 10 THEN <<Digit[n + 1]>>
  ELSE StrInt(n \div 10) \o <<Digit[(n % 10) + 1]>>

\* s.startswith("2")
StartsWith2(s) == Len(s) >= 1 /\ s[1] = "2"

\* x or None, for a string x
OrNone(s) == IF s = <<>> THEN None ELSE s
\* x or "", for an optional string x
OrEmpty(s) == IF s = None THEN <<>> ELSE s
\* truthiness of an optional string
Truthy(s) == s # None /\ s # <<>>

-----------------------------------------------------------------------------
(* The server: what one requests.post can do *)
NoResp == [code |-> 0, body |-> "none"]

\* bodies of a 400: the two special-cased messages, another message, and a
\* body that is not JSON
Bodies400 == {"MpId", "ToModify", "Other", "NotJson"}
Responses ==
  {[code |-> c, body |-> "text"] : c \in {200, 404, 429, 500}}
    \cup {[code |-> 400, body |-> b] : b \in Bodies400}
ExcTexts == {<<"e","1">>, <<"e","2">>}
Outcomes ==
  {[kind |-> "resp", resp |-> r, text |-> <<>>] : r \in Responses}
    \cup {[kind |-> "exc", resp |-> NoResp, text |-> t] : t \in ExcTexts}

\* resp.json().get("Errors", [{}])[0].get("message")
Message(resp) ==
  CASE resp.body = "MpId" -> "MpId doesn't exist"
    [] resp.body = "ToModify" -> "ToModifyIdentities is empty."
    [] resp.body = "Other" -> "other"
    [] OTHER -> "none"

\* f"Status {resp.status_code}: {resp.text}"
StatusErr(resp) ==
  <<"S","t","a","t","u","s"," ">> \o StrInt(resp.code) \o <<":"," ">>
    \o <<resp.body>>

JsonErrText == <<"E","x","p","e","c","t","i","n","g"," ","v","a","l","u","e">>

-----------------------------------------------------------------------------
(* step1: retryable_post *)
NoRet == [resp |-> NoResp, attempt |-> 0, err |-> None]

\* A fresh activation of retryable_post (lines 72-74).  The fields from own
\* on record what the activation did; the code does not read them:
\*   own       POSTs the activation issued itself
\*   sleeps    the backoff sleeps it took, in order
\*   lead      how many of its first outcomes in a row were retryable ones
\*   retr      how many of its outcomes were retryable ones
\*   excs      how many of its outcomes were network exceptions
\*   lastExc   the text of the last network exception
\*   okAt, okResp     the POST that got its first 2xx, and that response
\*   term, termAt, termSleeps   the terminal 4xx it got, at which POST, and
\*             the number of sleeps taken before
\*   special, resends   the special-cased 400 it got and the nested calls
\*             made for it
NewFrame ==
  [attempt |-> 0, backoff |-> INITIAL_BACKOFF, last_err |-> None,
   pc |-> "loop", resp |-> NoResp, idx |-> 0, ret |-> NoRet,
   own |-> 0, sleeps |-> <<>>, lead |-> 0, retr |-> 0, excs |-> 0,
   lastExc |-> None, okAt |-> 0, okResp |-> NoResp,
   term |-> NoResp, termAt |-> 0, termSleeps |-> 0,
   special |-> "none", resends |-> 0]

\* the attempt is counted only after the request, on the paths that loop
NextAttemptLate(f) == f

\* attempt += 1   (line 77)
NextAttempt(f) == [f EXCEPT !.attempt = @ + 1]

\* time.sleep(backoff); backoff *= 2
Backoff(f) ==
  [f EXCEPT !.sleeps = Append(@, f.backoff), !.backoff = 2 * @]

\* return resp, attempt, err
Return(f, resp, err) ==
  [f EXCEPT !.pc = "ret",
            !.ret = [resp |-> resp, attempt |-> f.attempt, err |-> err]]

\* the while test of line 76 and the return of line 107
WhileTest(f) ==
  IF f.attempt < MAX_RETRIES THEN [f EXCEPT !.pc = "loop"]
  ELSE Return(f, NoResp, f.last_err)

\* resp.status_code >= 500 or resp.status_code == 429
Retryable(code) == code >= 500 \/ code = 429

\* resp.status_code >= 200 and resp.status_code < 300
Is2xx(code) == code >= 200 /\ code < 300

\* the first error is kept instead of the last
SetLastErrFirst(f, text) ==
  IF f.last_err = None THEN [f EXCEPT !.last_err = text] ELSE f

\* the except clause: last_err = str(e)
SetLastErr(f, text) == [f EXCEPT !.last_err = text]

\* lines 102-105
ExceptClause(f, text) == WhileTest(Backoff(SetLastErr(f, text)))

Step(f, p, push, raise) ==
  [f |-> f, payload |-> p, push |-> push, raise |-> raise]

\* lines 93-100; resp is None when a nested call ran out of attempts
Line93(f, p) ==
  IF f.resp = NoResp THEN Step(f, p, FALSE, "AttributeError")
  ELSE LET g == [f EXCEPT !.last_err = StatusErr(f.resp)]
       IN IF Retryable(g.resp.code)
          THEN Step(WhileTest(Backoff(g)), p, FALSE, "")
          ELSE Step(Return(g, g.resp, g.last_err), p, FALSE, "")

\* ident["old_value"] = None for the mobile_number entry i
NullMobile(p, i) ==
  IF p.identity_changes[i].identity_type = "mobile_number"
  THEN [p EXCEPT !.identity_changes[i].old_value = None]
  ELSE p

\* the for loop of lines 87-90 from its i-th entry on: the nested call is
\* inside the loop body
ForLoop(f, p, i) ==
  IF i > Len(p.identity_changes) THEN Line93(f, p)
  ELSE Step([f EXCEPT !.pc = "call90", !.idx = i, !.resends = @ + 1],
            NullMobile(p, i), TRUE, "")

\* Kinds of outcome, as the specification names them
RetryableOutcome(o) ==
  o.kind = "exc" \/ o.resp.code = 429 \/ o.resp.code \in 500..599
SuccessOutcome(o) == o.kind = "resp" /\ o.resp.code \in 200..299
\* a terminal response: 4xx, not 429, not one of the two special-cased bodies
Terminal4xx(r) ==
  /\ r.code \in 400..499 /\ r.code # 429
  /\ ~(r.code = 400 /\ r.body \in {"MpId", "ToModify"})
TerminalOutcome(o) == o.kind = "resp" /\ Terminal4xx(o.resp)

\* what is recorded of the outcome o of the activation's own POST
Note(f, o) ==
  [f EXCEPT
     !.own = @ + 1,
     !.lead = IF f.lead = f.own /\ RetryableOutcome(o) THEN @ + 1 ELSE @,
     !.retr = IF RetryableOutcome(o) THEN @ + 1 ELSE @,
     !.excs = IF o.kind = "exc" THEN @ + 1 ELSE @,
     !.lastExc = IF o.kind = "exc" THEN o.text ELSE @,
     !.okAt = IF SuccessOutcome(o) /\ f.okAt = 0 THEN f.own + 1 ELSE @,
     !.okResp = IF SuccessOutcome(o) /\ f.okAt = 0 THEN o.resp ELSE @,
     !.term = IF TerminalOutcome(o) THEN o.resp ELSE @,
     !.termAt = IF TerminalOutcome(o) THEN f.own + 1 ELSE @,
     !.termSleeps = IF TerminalOutcome(o) THEN Len(f.sleeps) ELSE @]

\* one pass of the while body, lines 77-105, on outcome o of requests.post.
\* resp.json() on a body that is not JSON raises
\* requests.exceptions.JSONDecodeError, a RequestException (requests 2.27
\* and later), which the except clause of line 102 catches.
Attempt(f0, p, o) ==
  LET f == NextAttempt(f0)
  IN IF o.kind = "exc" THEN Step(ExceptClause(f, o.text), p, FALSE, "")
     ELSE LET g == [f EXCEPT !.resp = o.resp]
          IN IF Is2xx(g.resp.code)
             THEN Step(Return(g, g.resp, None), p, FALSE, "")
             ELSE IF g.resp.code = 400
             THEN IF g.resp.body = "NotJson"
                  THEN Step(ExceptClause(g, JsonErrText), p, FALSE, "")
                  ELSE IF Message(g.resp) = "MpId doesn't exist"
                  THEN Step([g EXCEPT !.pc = "call85", !.special = "MpId",
                                      !.resends = @ + 1],
                            [p EXCEPT !.environment = "development"],
                            TRUE, "")
                  ELSE IF Message(g.resp) = "ToModifyIdentities is empty."
                  THEN IF p.kind = "events"
                       THEN Step(g, p, FALSE, "KeyError")
                       ELSE ForLoop([g EXCEPT !.special = "ToModify"], p, 1)
                  ELSE Line93(g, p)
             ELSE Line93(g, p)

\* the caller's continuation when the nested call returns (lines 85, 90)
Resume(c0, p, ret) ==
  LET c == [c0 EXCEPT !.resp = ret.resp, !.attempt = ret.attempt,
                      !.last_err = ret.err]
  IN IF c0.pc = "call85" THEN Line93(c, p) ELSE ForLoop(c, p, c0.idx + 1)

Top == stack[Len(stack)]
Below == SubSeq(stack, 1, Len(stack) - 1)

\* the stack and payload after the innermost activation took step st
Apply(base, st) ==
  IF st.raise # ""
  THEN /\ stack' = <<>>
       /\ exc' = st.raise
       /\ pc1' = "aborted"
       /\ payload' = st.payload
  ELSE /\ stack' = IF st.push THEN base \o <<st.f, NewFrame>>
                   ELSE base \o <<st.f>>
       /\ payload' = st.payload
       /\ UNCHANGED <<exc, pc1>>

\* The innermost activation issues requests.post and handles its outcome.
Post(o, maxPosts) ==
  /\ prog = "step1"
  /\ stack # <<>>
  /\ Top.pc = "loop"
  /\ posts < maxPosts
  /\ posts' = posts + 1
  /\ callPosts' = callPosts + 1
  /\ cur' = IF pc1 = "modify" THEN [cur EXCEPT !.modPosts = @ + 1]
            ELSE [cur EXCEPT !.evPosts = @ + 1]
  /\ Apply(Below, Attempt(Note(Top, o), payload, o))
  /\ UNCHANGED <<dry_run, files, fi, rows, results, summary_files, postlog>>
  /\ UNCHANGED <<prog, vars2, varsc>>

\* A nested activation returns to the activation that called it.
ReturnNested ==
  /\ prog = "step1"
  /\ Len(stack) >= 2
  /\ Top.pc = "ret"
  /\ Apply(SubSeq(stack, 1, Len(stack) - 2),
           Resume(stack[Len(stack) - 1], payload, Top.ret))
  /\ UNCHANGED <<dry_run, files, fi, rows, results, summary_files, posts,
                 callPosts, postlog, cur>>
  /\ UNCHANGED <<prog, vars2, varsc>>

-----------------------------------------------------------------------------
(* step1: build_modify_payload, process_file, main *)
ENVIRONMENT == "production"

\* the rows a chunk file can hold: Email_Address, External_ID, Phone_Number
RowSet ==
  { [email |-> <<"e">>,     mpid |-> <<>>,         phone |-> <<>>],
    [email |-> <<>>,        mpid |-> <<" ">>,      phone |-> <<"p">>],
    [email |-> <<>>,        mpid |-> <<" ", "m">>, phone |-> <<" ">>],
    [email |-> <<>>,        mpid |-> <<"n">>,      phone |-> <<"p">>],
    [email |-> <<"e", " ">>, mpid |-> <<"m", " ">>, phone |-> <<" ", "p">>] }

\* the cell is not stripped
FieldUnstripped(raw) == OrNone(raw)

\* row.get(HEADER, "").strip() or None
Field(raw) == OrNone(Strip(raw, Whitespace))

\* x.strip() if x and x.strip() != "" else None   (lines 111-112)
Normalize(x) ==
  IF Truthy(x) /\ Strip(x, Whitespace) # <<>> THEN Strip(x, Whitespace)
  ELSE None

Change(old, type) ==
  [old_value |-> old, new_value |-> None, identity_type |-> type]

build_modify_payload(email0, phone0, environment) ==
  LET email == Normalize(email0)
      phone == Normalize(phone0)
  IN [kind |-> "modify", environment |-> environment, mpid |-> None,
      identity_changes |->
        (IF email # None THEN <<Change(email, "email")>> ELSE <<>>)
          \o (IF phone # None THEN <<Change(phone, "mobile_number")>>
              ELSE <<>>)]

\* the events payload has no identity_changes key
build_events_payload(mpid) ==
  [kind |-> "events", environment |-> ENVIRONMENT, mpid |-> mpid,
   identity_changes |-> <<>>]

NoPayload ==
  [kind |-> "none", environment |-> "", mpid |-> None,
   identity_changes |-> <<>>]

NoCur ==
  [mpid |-> None, email |-> None, phone |-> None, modify_status |-> <<>>,
   modify_attempts |-> 0, modify_err |-> None, modPosts |-> 0, evPosts |-> 0,
   modFrame |-> NewFrame]

\* what postlog keeps of a row: the POSTs of its modify and events calls, and
\* of the modify call's outermost activation the POSTs, how many of them
\* raised a network exception, and the text of the last one
PostLog(c) ==
  [mod |-> c.modPosts, ev |-> c.evPosts, own |-> c.modFrame.own,
   excs |-> c.modFrame.excs, lastExc |-> c.modFrame.lastExc]

Result(mpid, email, phone, ms, es, retries, message) ==
  [mpid |-> mpid, email |-> email, phone |-> phone, modify_status |-> ms,
   events_status |-> es, retries |-> retries, message |-> message]

\* if not mpid
MissingMpid(mpid) == ~Truthy(mpid)

\* modify_err or events_err or ""
MessageOf(modify_err, events_err) ==
  IF Truthy(modify_err) THEN modify_err
  ELSE IF Truthy(events_err) THEN events_err ELSE <<>>

\* str(resp.status_code) if resp is not None else "failed"
StatusOf(resp) == IF resp # NoResp THEN StrInt(resp.code) ELSE S_failed

\* if str(modify_status).startswith("2")
ModifySucceeded(status) == StartsWith2(status)

\* the flag is not consulted
SimulatedNever(flag) == FALSE

\* if dry_run   (lines 223, 245)
Simulated(flag) == flag

\* main up to its loop (lines 312-326)
Main ==
  /\ prog = "step1"
  /\ pc1 = "main"
  /\ IF files = 0 THEN pc1' = "done" /\ fi' = fi
     ELSE pc1' = "open" /\ fi' = 1
  /\ UNCHANGED <<dry_run, files, rows, results, cur, payload, stack, exc,
                 summary_files, posts, callPosts, postlog>>
  /\ UNCHANGED <<prog, vars2, varsc>>

\* process_file up to its loop (lines 172-193)
OpenFile ==
  /\ prog = "step1"
  /\ pc1 = "open"
  /\ pc1' = "row"
  /\ results' = <<>>
  /\ rows' = <<>>
  /\ postlog' = <<>>
  /\ UNCHANGED <<dry_run, files, fi, cur, payload, stack, exc, summary_files,
                 posts, callPosts>>
  /\ UNCHANGED <<prog, vars2, varsc>>

\* One pass of the row loop up to the modify call (lines 195-229).  The
\* pacing sleep of line 273 changes no state and is not recorded.
ReadRow(row, maxRows) ==
  /\ prog = "step1"
  /\ pc1 = "row"
  /\ Len(rows) < maxRows
  /\ rows' = Append(rows, row)
  /\ LET email == Field(row.email)
         mpid == Field(row.mpid)
         phone == Field(row.phone)
         modify_payload == build_modify_payload(email, phone, ENVIRONMENT)
     IN IF MissingMpid(mpid)
        THEN /\ results' = Append(results,
                  Result(<<>>, OrEmpty(email), OrEmpty(phone), S_skipped,
                         S_skipped, 0, S_missing))
             /\ postlog' = Append(postlog, PostLog(NoCur))
             /\ UNCHANGED <<pc1, cur, payload, stack, callPosts>>
        ELSE IF Simulated(dry_run)
        THEN /\ results' = Append(results,
                  Result(mpid, OrEmpty(email), OrEmpty(phone), S_dryrun,
                         S_dryrun, 0, MessageOf(None, None)))
             /\ postlog' = Append(postlog, PostLog(NoCur))
             /\ UNCHANGED <<pc1, cur, payload, stack, callPosts>>
        ELSE /\ pc1' = "modify"
             /\ cur' = [NoCur EXCEPT !.mpid = mpid, !.email = email,
                                     !.phone = phone]
             /\ payload' = modify_payload
             /\ stack' = <<NewFrame>>
             /\ callPosts' = 0
             /\ UNCHANGED <<results, postlog>>
  /\ UNCHANGED <<dry_run, files, fi, exc, summary_files, posts>>
  /\ UNCHANGED <<prog, vars2, varsc>>

\* The modify call returns to process_file (lines 229-260).
ReturnModify ==
  /\ prog = "step1"
  /\ pc1 = "modify"
  /\ Len(stack) = 1
  /\ Top.pc = "ret"
  /\ LET modify_status == StatusOf(Top.ret.resp)
         c == [cur EXCEPT !.modify_attempts = Top.ret.attempt,
                          !.modify_err = Top.ret.err,
                          !.modify_status = modify_status,
                          !.modFrame = Top]
     IN IF ModifySucceeded(modify_status)
        THEN /\ pc1' = "events"
             /\ cur' = c
             /\ payload' = build_events_payload(cur.mpid)
             /\ stack' = <<NewFrame>>
             /\ callPosts' = 0
             /\ UNCHANGED <<results, postlog>>
        ELSE /\ pc1' = "row"
             /\ results' = Append(results,
                  Result(c.mpid, OrEmpty(c.email), OrEmpty(c.phone),
                         modify_status, S_skipped_modify_failed,
                         c.modify_attempts + 0, MessageOf(c.modify_err, None)))
             /\ postlog' = Append(postlog, PostLog(c))
             /\ cur' = NoCur
             /\ payload' = NoPayload
             /\ stack' = <<>>
             /\ UNCHANGED callPosts
  /\ UNCHANGED <<dry_run, files, fi, rows, exc, summary_files, posts>>
  /\ UNCHANGED <<prog, vars2, varsc>>

\* The events call returns to process_file (lines 251-273).
ReturnEvents ==
  /\ prog = "step1"
  /\ pc1 = "events"
  /\ Len(stack) = 1
  /\ Top.pc = "ret"
  /\ pc1' = "row"
  /\ results' = Append(results,
       Result(cur.mpid, OrEmpty(cur.email), OrEmpty(cur.phone),
              cur.modify_status, StatusOf(Top.ret.resp),
              cur.modify_attempts + Top.ret.attempt,
              MessageOf(cur.modify_err, Top.ret.err)))
  /\ postlog' = Append(postlog, PostLog(cur))
  /\ cur' = NoCur
  /\ payload' = NoPayload
  /\ stack' = <<>>
  /\ UNCHANGED <<dry_run, files, fi, rows, exc, summary_files, posts,
                 callPosts>>
  /\ UNCHANGED <<prog, vars2, varsc>>

\* The reader is exhausted: the summary is written and process_file returns
\* to main's loop (lines 275-283, 328-331).
EndFile ==
  /\ prog = "step1"
  /\ pc1 = "row"
  /\ summary_files' = summary_files + 1
  /\ IF fi < files THEN pc1' = "open" /\ fi' = fi + 1
     ELSE pc1' = "combine" /\ fi' = fi
  /\ UNCHANGED <<dry_run, files, rows, results, cur, payload, stack, exc,
                 posts, callPosts, postlog>>
  /\ UNCHANGED <<prog, vars2, varsc>>

\* combine_summaries and the end of main (lines 333-334)
Combine ==
  /\ prog = "step1"
  /\ pc1 = "combine"
  /\ pc1' = "done"
  /\ UNCHANGED <<dry_run, files, fi, rows, results, cur, payload, stack, exc,
                 summary_files, posts, callPosts, postlog>>
  /\ UNCHANGED <<prog, vars2, varsc>>

Idle1 ==
  /\ dry_run = FALSE /\ files = 0 /\ fi = 0 /\ pc1 = "off" /\ rows = <<>>
  /\ results = <<>> /\ cur = NoCur /\ payload = NoPayload /\ stack = <<>>
  /\ exc = "" /\ summary_files = 0 /\ callPosts = 0
  /\ postlog = <<>>

Init1(maxFiles) ==
  /\ prog = "step1"
  /\ dry_run \in BOOLEAN
  /\ files \in 0..maxFiles
  /\ fi = 0 /\ pc1 = "main" /\ rows = <<>>
  /\ results = <<>> /\ cur = NoCur /\ payload = NoPayload /\ stack = <<>>
  /\ exc = "" /\ summary_files = 0 /\ posts = 0 /\ callPosts = 0
  /\ postlog = <<>>

Next1(maxRows, maxPosts) ==
  \/ Main
  \/ OpenFile
  \/ \E row \in RowSet : ReadRow(row, maxRows)
  \/ \E o \in Outcomes : Post(o, maxPosts)
  \/ ReturnNested
  \/ ReturnModify
  \/ ReturnEvents
  \/ EndFile
  \/ Combine

-----------------------------------------------------------------------------
(* chunkify.py: split_csv *)
MaxCsvRows == 3    \* data rows of the input file
MaxChunk == 2      \* chunk_size

Cells ==
  { <<>>, <<"a">>, <<" ", "'", "a", "'">>, <<"\"", "b", " ", "\"", "\t">> }
CsvRows == {<<c>> : c \in Cells} \cup {<<>>, <<<<"a">>, <<"'", "\"", "c">>>>}
Headers == {<<<<" ", "h">>>>}

RECURSIVE SeqsUpTo(_, _)
\* the sequences over S of length at most n
SeqsUpTo(S, n) ==
  IF n = 0 THEN {<<>>}
  ELSE LET shorter == SeqsUpTo(S, n - 1)
       IN shorter \cup {Append(q, x) : q \in shorter, x \in S}

\* col.strip().strip("'").strip('"') if col else ""
Clean(col) ==
  IF col = <<>> THEN <<>>
  ELSE Strip(Strip(Strip(col, Whitespace), {"'"}), {"\""})

cleaned_row(row) == [k \in 1..Len(row) |-> Clean(row[k])]

\* the file is rotated one row late
RotateLate(count, size) == count > size

\* if row_count >= chunk_size
Rotate(count, size) == count >= size

\* lines 5-14: the header is read and the first output file is opened
SplitOpen ==
  /\ prog = "chunkify"
  /\ pcc = "start"
  /\ pcc' = "rows"
  /\ file_count' = 1
  /\ row_count' = 0
  /\ outfiles' = <<<<header>>>>
  /\ UNCHANGED <<header, input, chunk_size, rpos, closed>>
  /\ UNCHANGED <<prog, posts, vars1, vars2>>

\* one pass of the row loop, lines 16-33
SplitRow ==
  /\ prog = "chunkify"
  /\ pcc = "rows"
  /\ rpos < Len(input)
  /\ rpos' = rpos + 1
  /\ LET row == cleaned_row(input[rpos + 1])
     IN IF Rotate(row_count, chunk_size)
        THEN /\ closed' = closed + 1
             /\ file_count' = file_count + 1
             /\ row_count' = 1
             /\ outfiles' = Append(outfiles, <<header, row>>)
        ELSE /\ outfiles' = [outfiles EXCEPT ![file_count] = Append(@, row)]
             /\ row_count' = row_count + 1
             /\ UNCHANGED <<closed, file_count>>
  /\ UNCHANGED <<header, input, chunk_size, pcc>>
  /\ UNCHANGED <<prog, posts, vars1, vars2>>

\* lines 35-36: the reader is exhausted
SplitClose ==
  /\ prog = "chunkify"
  /\ pcc = "rows"
  /\ rpos = Len(input)
  /\ pcc' = "done"
  /\ closed' = closed + 1
  /\ UNCHANGED <<header, input, chunk_size, rpos, file_count, row_count,
                 outfiles>>
  /\ UNCHANGED <<prog, posts, vars1, vars2>>

Idlec ==
  /\ header = <<>> /\ input = <<>> /\ chunk_size = 0 /\ pcc = "off"
  /\ rpos = 0 /\ file_count = 0 /\ row_count = 0 /\ outfiles = <<>>
  /\ closed = 0

Initc ==
  /\ prog = "chunkify"
  /\ header \in Headers
  /\ input \in SeqsUpTo(CsvRows, MaxCsvRows)
  /\ chunk_size \in 1..MaxChunk
  /\ pcc = "start" /\ rpos = 0 /\ file_count = 0 /\ row_count = 0
  /\ outfiles = <<>> /\ closed = 0

Nextc == SplitOpen \/ SplitRow \/ SplitClose

-----------------------------------------------------------------------------
(* step2: chunkify, write_log, send_batch, main *)
BATCH_SIZE == 100
MaxFull == 2       \* full batches in a chunk file
MaxRest == 1       \* rows beyond the full batches

\* the statuses the bulk endpoint answers with
Statuses2 == {202, 200, 429, 500}
Outcomes2 ==
  {[kind |-> "resp", code |-> c, text |-> <<>>] : c \in Statuses2}
    \cup {[kind |-> "exc", code |-> 0, text |-> t] : t \in ExcTexts}

\* row n of a chunk file
BulkRow(n) == [mpid |-> n, email |-> n]

Min(a, b) == IF a < b THEN a ELSE b

\* the slice takes one row too many
SliceInclusive(data, i, size) ==
  SubSeq(data, i + 1, Min(i + size + 1, Len(data)))

\* data[i:i + size]
Slice(data, i, size) == SubSeq(data, i + 1, Min(i + size, Len(data)))

LogRow(row, status, response) ==
  [mpid |-> row.mpid, email |-> row.email, status |-> status,
   response |-> response]

\* one log row per row of the batch
LogRows(b, status, response) ==
  [k \in 1..Len(b) |-> LogRow(b[k], status, response)]

LogHeader == [mpid |-> 0, email |-> 0, status |-> "Status Code",
              response |-> <<>>]

\* write_log: the header goes first into a file that does not exist yet
write_log(file, log_data) ==
  (IF file = <<>> THEN <<LogHeader>> ELSE <<>>) \o file \o log_data

\* backoff * (2 ** attempt), backoff = 1
Backoff2(attempt) == 2 ^ attempt

\* the file loop of main moves on (line 121)
NextFile2 ==
  IF bfi < bfiles THEN pc2' = "read" /\ bfi' = bfi + 1
  ELSE pc2' = "done" /\ bfi' = bfi

\* main up to its loop (lines 118-121)
Main2 ==
  /\ prog = "step2"
  /\ pc2 = "main"
  /\ IF bfiles = 0 THEN pc2' = "done" /\ bfi' = bfi
     ELSE pc2' = "read" /\ bfi' = 1
  /\ UNCHANGED <<DRY_RUN, bfiles, all_data, bpos, batch, attempt2, log_file,
                 slept2, batchlog, posts>>
  /\ UNCHANGED <<prog, vars1, varsc>>

\* read_csv (line 124); when it raises, main logs the error and goes on
\* with the next file (lines 130-131)
ReadCsv(n, ok) ==
  /\ prog = "step2"
  /\ pc2 = "read"
  /\ IF ok
     THEN /\ all_data' = [k \in 1..n |-> BulkRow(k)]
          /\ bpos' = 0
          /\ pc2' = "batch"
          /\ bfi' = bfi
          /\ batchlog' = <<>>
     ELSE /\ NextFile2
          /\ UNCHANGED <<all_data, bpos, batchlog>>
  /\ UNCHANGED <<DRY_RUN, bfiles, batch, attempt2, log_file, slept2, posts>>
  /\ UNCHANGED <<prog, vars1, varsc>>

\* send_batch has its log rows: write_log, sleep, next batch (lines 127-129)
Logged(b, logs, n) ==
  /\ log_file' = write_log(log_file, logs)
  /\ batchlog' = Append(batchlog, [rows |-> b, logs |-> logs, posts |-> n])
  /\ pc2' = "batch"

\* chunkify yields the next batch and send_batch starts (lines 126, 47-90);
\* in a dry run it returns its fabricated rows at once
NextBatch ==
  /\ prog = "step2"
  /\ pc2 = "batch"
  /\ IF bpos < Len(all_data)
     THEN LET b == Slice(all_data, bpos, BATCH_SIZE)
          IN /\ bpos' = bpos + BATCH_SIZE
             /\ batch' = b
             /\ attempt2' = 0
             /\ slept2' = <<>>
             /\ bfi' = bfi
             /\ IF DRY_RUN
                THEN Logged(b, LogRows(b, "DRY_RUN", <<"Simulated">>), 0)
                ELSE /\ pc2' = "send"
                     /\ UNCHANGED <<log_file, batchlog>>
     ELSE /\ NextFile2
          /\ UNCHANGED <<bpos, batch, attempt2, slept2, log_file, batchlog>>
  /\ UNCHANGED <<DRY_RUN, bfiles, all_data, posts>>
  /\ UNCHANGED <<prog, vars1, varsc>>

\* one pass of send_batch's attempt loop (lines 92-114), retries = 3
SendAttempt(o, maxPosts) ==
  /\ prog = "step2"
  /\ pc2 = "send"
  /\ posts < maxPosts
  /\ posts' = posts + 1
  /\ IF o.kind = "resp"
     THEN /\ Logged(batch,
                    LogRows(batch, StrInt(o.code),
                            IF o.code = 202 THEN <<"Success">>
                            ELSE <<"text">>),
                    Len(slept2) + 1)
          /\ UNCHANGED <<attempt2, slept2>>
     ELSE IF attempt2 < MAX_RETRIES - 1
     THEN /\ slept2' = Append(slept2, Backoff2(attempt2))
          /\ attempt2' = attempt2 + 1
          /\ UNCHANGED <<pc2, log_file, batchlog>>
     ELSE /\ Logged(batch, LogRows(batch, "Error", o.text), attempt2 + 1)
          /\ UNCHANGED <<attempt2, slept2>>
  /\ UNCHANGED <<DRY_RUN, bfiles, bfi, all_data, bpos, batch>>
  /\ UNCHANGED <<prog, vars1, varsc>>

Idle2 ==
  /\ DRY_RUN = FALSE /\ bfiles = 0 /\ bfi = 0 /\ pc2 = "off"
  /\ all_data = <<>> /\ bpos = 0 /\ batch = <<>> /\ attempt2 = 0
  /\ log_file = <<>> /\ slept2 = <<>> /\ batchlog = <<>>

Init2(maxFiles) ==
  /\ prog = "step2"
  /\ DRY_RUN \in BOOLEAN
  /\ bfiles \in 0..maxFiles
  /\ bfi = 0 /\ pc2 = "main"
  /\ all_data = <<>> /\ bpos = 0 /\ batch = <<>> /\ attempt2 = 0
  /\ log_file = <<>> /\ slept2 = <<>> /\ batchlog = <<>>
  /\ posts = 0

BulkSizes == {f * BATCH_SIZE + r : f \in 0..MaxFull, r \in 0..MaxRest}

Next2(maxPosts) ==
  \/ Main2
  \/ \E n \in BulkSizes, ok \in BOOLEAN : ReadCsv(n, ok)
  \/ NextBatch
  \/ \E o \in Outcomes2 : SendAttempt(o, maxPosts)

-----------------------------------------------------------------------------
\* One of the three scripts runs.
Init ==
  \/ Init1(MaxFiles) /\ Idle2 /\ Idlec
  \/ Init2(MaxFiles) /\ Idle1 /\ Idlec
  \/ Initc /\ Idle1 /\ Idle2 /\ posts = 0

Next == Next1(MaxRows, MaxPosts) \/ Next2(MaxPosts) \/ Nextc

Spec == Init /\ [][Next]_vars

\* chunkify.py alone
InitChunk == Initc /\ Idle1 /\ Idle2 /\ posts = 0

SpecChunk == InitChunk /\ [][Nextc]_vars

\* step1 alone, over few rows
InitRetry == Init1(RetryFiles) /\ Idle2 /\ Idlec

NextRetry == Next1(RetryRows, RetryPosts)

SpecRetry == InitRetry /\ [][NextRetry]_vars

\* step1 or step2, over few POSTs
InitDrivers ==
  \/ Init1(MaxFiles) /\ Idle2 /\ Idlec
  \/ Init2(MaxFiles) /\ Idle1 /\ Idlec

NextDrivers == Next1(MaxRows, DriverPosts) \/ Next2(DriverPosts)

SpecDrivers == InitDrivers /\ [][NextDrivers]_vars

\* step2 alone
InitBulk == Init2(BulkFiles) /\ Idle1 /\ Idlec

NextBulk == Next2(BulkPosts)

SpecBulk == InitBulk /\ [][NextBulk]_vars

-----------------------------------------------------------------------------
(* Vocabulary of the properties *)
Frames == {stack[k] : k \in 1..Len(stack)}

\* empty or whitespace only
Blank(raw) == \A k \in 1..Len(raw) : raw[k] \in Whitespace

\* ceil(r / c)
Ceil(r, c) == (r + c - 1) \div c

Max(a, b) == IF a > b THEN a ELSE b

RECURSIVE DataRows(_)
\* the data rows of the output files, in order of writing
DataRows(fs) ==
  IF fs = <<>> THEN <<>> ELSE Tail(Head(fs)) \o DataRows(Tail(fs))

\* every output file is the header followed by at most chunk_size data rows,
\* and the data rows of all files are the cleaned input rows in input order
ChunksWellFormed ==
  /\ \A k \in 1..Len(outfiles) :
       /\ Len(outfiles[k]) >= 1
       /\ outfiles[k][1] = header
       /\ Len(outfiles[k]) - 1 <= chunk_size
  /\ DataRows(outfiles) = [k \in 1..Len(input) |-> cleaned_row(input[k])]
  /\ closed = Len(outfiles)

-----------------------------------------------------------------------------
\* C1: one top-level invocation of retryable_post issues at most MAX_RETRIES
\* HTTP POSTs in total, whatever the server answers.
C1_AtMostMaxRetriesPosts == callPosts <= MAX_RETRIES

\* C2 as stated: split_csv ends with exactly ceil(R/C) well-formed output
\* files, R = 0 included.
C2_CeilFiles ==
  pcc = "done" =>
    /\ Len(outfiles) = Ceil(Len(input), chunk_size)
    /\ ChunksWellFormed

\* C2 amended: split_csv ends with max(1, ceil(R/C)) output files, each the
\* header followed by at most C data rows, that hold the cleaned input rows
\* once each and in input order; for R = 0 there is one header-only file.
C2_CeilFilesAtLeastOne ==
  pcc = "done" =>
    /\ Len(outfiles) = Max(1, Ceil(Len(input), chunk_size))
    /\ ChunksWellFormed

\* a run over three rows with chunk size two that rotated once and cleaned
\* a cell
C2_Witness ==
  /\ pcc = "done"
  /\ Len(input) = 3
  /\ chunk_size = 2
  /\ Len(outfiles) = 2
  /\ DataRows(outfiles) # input

\* C3: a special-cased 400 makes the activation that received it resend the
\* payload exactly once, whatever the length of identity_changes.
C3_ResentOnce ==
  \A f \in Frames :
    f.special # "none" =>
      /\ f.resends <= 1
      /\ (f.pc \in {"ret", "loop"} => f.resends = 1)

\* C4: an activation that received a terminal 4xx returns that response at
\* once: no further POST, no backoff sleep, and the attempt count returned is
\* the number of the attempt that received it.
C4_TerminalReturnsAtOnce ==
  \A f \in Frames :
    f.term # NoResp =>
      /\ f.pc = "ret"
      /\ f.ret.resp = f.term
      /\ f.ret.attempt = f.termAt
      /\ f.own = f.termAt
      /\ Len(f.sleeps) = f.termSleeps

C6_PermanentFailure ==
  /\ \A f \in Frames :
       (f.own > 0 /\ f.excs = f.own) =>
         /\ f.own <= MAX_RETRIES
         /\ IF f.own = MAX_RETRIES
            THEN /\ f.pc = "ret"
                 /\ f.ret.resp = NoResp
                 /\ f.ret.err = f.lastExc
            ELSE f.pc = "loop"
  /\ \A i \in 1..Len(results) :
       (postlog[i].own > 0 /\ postlog[i].excs = postlog[i].own) =>
         /\ postlog[i].mod = MAX_RETRIES
         /\ postlog[i].ev = 0
         /\ results[i].modify_status = S_failed
         /\ results[i].message = postlog[i].lastExc

\* a row whose three modify attempts all raised, the last with text "e2",
\* the one before with another text
C6_Witness ==
  \E i \in 1..Len(results) :
    /\ postlog[i].excs = MAX_RETRIES
    /\ postlog[i].mod = MAX_RETRIES
    /\ results[i].modify_status = S_failed
    /\ results[i].message = <<"e", "2">>

\* C7: a row whose identifier is blank gets a record with both statuses
\* "skipped" and retries 0, no HTTP call is issued for it, and the loop goes
\* on to the next row.
C7_BlankSkipped ==
  \A i \in 1..Len(rows) :
    Blank(rows[i].mpid) =>
      /\ i <= Len(results)
      /\ results[i].modify_status = S_skipped
      /\ results[i].events_status = S_skipped
      /\ results[i].retries = 0
      /\ postlog[i].mod = 0 /\ postlog[i].ev = 0
      /\ (i = Len(rows) => pc1 \in {"row", "open", "combine", "done"}
                           /\ stack = <<>>)

\* a real run skipped a whitespace-only identifier and went on to POST for
\* the next row
C7_Witness ==
  /\ ~dry_run
  /\ Len(rows) = 2
  /\ rows[1].mpid = <<" ">>
  /\ results[1].modify_status = S_skipped
  /\ pc1 = "modify"
  /\ cur.modPosts = 1

\* what a dry run leaves behind in step2: no POST, one fabricated line per
\* row of every batch
BulkDryRun ==
  (prog = "step2" /\ DRY_RUN) =>
    /\ posts = 0
    /\ pc2 # "send"
    /\ \A k \in 1..Len(batchlog) :
         /\ batchlog[k].posts = 0
         /\ batchlog[k].logs =
              [j \in 1..Len(batchlog[k].rows) |->
                 LogRow(batchlog[k].rows[j], "DRY_RUN", <<"Simulated">>)]

\* C8 as stated: in a dry run no HTTP request is issued by either driver, and
\* every row gets a fabricated "dry-run" record or "DRY_RUN" log line.
C8_DryRunAllFabricated ==
  /\ (prog = "step1" /\ dry_run) =>
       /\ posts = 0
       /\ stack = <<>>
       /\ Len(results) = Len(rows)
       /\ \A i \in 1..Len(results) :
            /\ results[i].modify_status = S_dryrun
            /\ results[i].events_status = S_dryrun
  /\ BulkDryRun

\* C8 amended: in a dry run no HTTP request is issued by either driver; every
\* row gets a record or log line: "dry-run" statuses for a row with an
\* identifier, "skipped" for a row whose identifier is blank, a
\* "DRY_RUN"/"Simulated" line in the bulk sender.
C8_DryRunNoHttp ==
  /\ (prog = "step1" /\ dry_run) =>
       /\ posts = 0
       /\ stack = <<>>
       /\ Len(results) = Len(rows)
       /\ \A i \in 1..Len(results) :
            /\ postlog[i].mod = 0 /\ postlog[i].ev = 0
            /\ results[i].retries = 0
            /\ IF Blank(rows[i].mpid)
               THEN /\ results[i].modify_status = S_skipped
                    /\ results[i].events_status = S_skipped
               ELSE /\ results[i].modify_status = S_dryrun
                    /\ results[i].events_status = S_dryrun
  /\ BulkDryRun

\* a dry run in its second file, after a row with an identifier and a row
\* without
C8_Witness ==
  /\ prog = "step1"
  /\ dry_run
  /\ fi = 2
  /\ Len(results) = 2
  /\ results[1].modify_status = S_dryrun
  /\ results[2].modify_status = S_skipped

\* C9: an events request is issued only after the modify call of the same row
\* returned a 2xx; a row whose modify call ended otherwise gets no events
\* request and has its events status marked as skipped.
C9_EventsOnlyAfterModify ==
  /\ (pc1 = "events" \/ cur.evPosts > 0) =>
       Is2xx(cur.modFrame.ret.resp.code)
  /\ \A i \in 1..Len(results) :
       (~dry_run /\ ~Blank(rows[i].mpid)
          /\ ~StartsWith2(results[i].modify_status)) =>
         /\ results[i].events_status = S_skipped_modify_failed
         /\ postlog[i].ev = 0
  /\ (stack = <<>> /\ cur.evPosts = 0) => Len(results) = Len(rows)

\* C10: no outcome of the HTTP calls aborts the run: the row in progress is
\* the only one without a record, and a finished file has one record per
\* row, in input order.
C10_NoAbort ==
  /\ pc1 # "aborted"
  /\ Len(results) \in {Len(rows), Len(rows) - 1}
  /\ (stack = <<>> => Len(results) = Len(rows))
  /\ \A i \in 1..Len(results) :
       results[i].mpid = OrEmpty(OrNone(Strip(rows[i].mpid, Whitespace)))

-----------------------------------------------------------------------------
\* the status column of the log lines of batch k
BatchStatus(k) == batchlog[k].logs[1].status

\* C11: a batch of the bulk sender whose response was HTTP 5xx or 429 is
\* retried: its rows are logged with that status only after MAX_RETRIES
\* POSTs.
C11_BulkRetriesStatus ==
  \A k \in 1..Len(batchlog) :
    (batchlog[k].rows # <<>>
       /\ BatchStatus(k) \in {StrInt(429), StrInt(500)}) =>
      batchlog[k].posts = MAX_RETRIES

RECURSIVE SentRows(_)
\* the rows of the batches sent, in order of sending
SentRows(bl) ==
  IF bl = <<>> THEN <<>> ELSE Head(bl).rows \o SentRows(Tail(bl))

RECURSIVE SentLogs(_)
\* the log lines of the batches sent, in order of writing
SentLogs(bl) ==
  IF bl = <<>> THEN <<>> ELSE Head(bl).logs \o SentLogs(Tail(bl))

\* the rows of the file whose batch has been sent and logged
RowsDone ==
  Min(bpos, Len(all_data)) - (IF pc2 = "send" THEN Len(batch) ELSE 0)

\* C12: in the bulk sender the batches hold between 1 and BATCH_SIZE rows
\* and are, in order, the rows of the file, each row in one batch; for every
\* batch, whatever the outcome of its send, LOG_FILE gets one line per row,
\* in row order, all lines with the same status and response; a file that
\* main has left has every row logged.
C12_OneLinePerRow ==
  prog = "step2" =>
    /\ \A k \in 1..Len(batchlog) :
         LET b == batchlog[k]
         IN /\ Len(b.rows) \in 1..BATCH_SIZE
            /\ Len(b.logs) = Len(b.rows)
            /\ \A j \in 1..Len(b.rows) :
                 b.logs[j] =
                   LogRow(b.rows[j], b.logs[1].status, b.logs[1].response)
    /\ SentRows(batchlog) = SubSeq(all_data, 1, RowsDone)
    /\ (pc2 \in {"read", "done"} => SentRows(batchlog) = all_data)
    /\ (log_file # <<>> => log_file[1] = LogHeader)
    /\ LET logs == SentLogs(batchlog)
       IN /\ Len(logs) < Len(log_file) \/ logs = <<>>
          /\ logs = SubSeq(log_file, Len(log_file) - Len(logs) + 1,
                           Len(log_file))

\* a file of 101 rows: the full batch ran out of attempts after three
\* network errors and has its 100 lines in the log; the batch of the last
\* row is being sent
C12_Witness ==
  /\ Len(all_data) = BATCH_SIZE + 1
  /\ Len(batchlog) = 1
  /\ Len(batchlog[1].rows) = BATCH_SIZE
  /\ batchlog[1].posts = MAX_RETRIES
  /\ BatchStatus(1) = "Error"
  /\ Len(log_file) = BATCH_SIZE + 1
  /\ pc2 = "send"
  /\ batch = <<BulkRow(BATCH_SIZE + 1)>>

\* C13: in both drivers an exception raised while a chunk file is processed
\* does not end the run: the run ends only after the last chunk file has been
\* taken up.
C13_RunEndsAfterLastFile ==
  /\ (prog = "step1" /\ pc1 \in {"done", "aborted"}) => fi = files
  /\ (prog = "step2" /\ pc2 = "done") => bfi = bfiles

\* C14: retryable_post does not recurse without bound: with at most
\* MAX_RETRIES attempts to spend, the activations nested in one top-level
\* call never number more than MAX_RETRIES + 1.
C14_RecursionBounded == Len(stack) <= MAX_RETRIES + 1

\* INITIAL_BACKOFF * 2^(n-1), n = 1..count
BackoffSeries(count) == [n \in 1..count |-> INITIAL_BACKOFF * 2 ^ (n - 1)]

\* C15: the backoff sleeps of an activation of retryable_post are 1, 2, 4,
\* ... seconds, one after each of its retryable outcomes (network exception,
\* 5xx, 429) and none after any other outcome, starting at 1 in every
\* activation; send_batch sleeps 1, 2, ... between its attempts.
C15_ExponentialBackoff ==
  /\ \A f \in Frames : f.sleeps = BackoffSeries(f.retr)
  /\ slept2 = BackoffSeries(attempt2)

\* C16: the retries value of a row's result record is the number of HTTP
\* POSTs issued for the row, modify and events requests and the resends
\* after a special-cased 400 included; the attempt count an activation of
\* retryable_post returns is the number of POSTs issued on its behalf.
C16_RetriesCountPosts ==
  /\ \A i \in 1..Len(results) :
       results[i].retries = postlog[i].mod + postlog[i].ev
  /\ (Len(stack) = 1 /\ Top.pc = "ret") => Top.ret.attempt = callPosts

\* C17: an activation of retryable_post returns no error message exactly
\* when it returns a 2xx response, and a row whose modify and events calls
\* both ended 2xx has an empty message in its record.
C17_ErrNoneIffSuccess ==
  /\ \A f \in Frames :
       f.pc = "ret" =>
         (f.ret.err = None <=>
            (f.ret.resp # NoResp /\ f.ret.resp.code \in 200..299))
  /\ \A i \in 1..Len(results) :
       (StartsWith2(results[i].modify_status)
          /\ StartsWith2(results[i].events_status)) =>
         results[i].message = <<>>
====
